---- MODULE Spec2Model ----
(***************************************************************************)
(* Model of the graph view of src/src/components/D3Graph.tsx and of the    *)
(* edge router of src/src/utils/edgeUtils.ts (the first, live copy of the  *)
(* module, lines 1-258).                                                   *)
(*                                                                         *)
(* Numbers.  The program computes in IEEE doubles; the model computes the  *)
(* same expressions exactly, for node centres with integer coordinates.    *)
(* Node positions are in pixels.  The points of a curve (anchors and       *)
(* control points) are in tenths of a pixel, so that the products by 0.5   *)
(* and 0.4 are integers; the numbers of a path are in twentieths of a      *)
(* pixel, so that the spine and the corner radius are integers; a point    *)
(* sampled on a curve is a pair of numerators over 10 * SampleDen; a       *)
(* viewport scale or translation is a fraction <<num, den>> in lowest      *)
(* terms.  Every \div below is exact.                                      *)
(***************************************************************************)
EXTENDS Integers, Sequences, FiniteSets, TLC

VARIABLES
    props,             \* the props of D3Graph: [data, width, height]
    layoutAlgorithm,   \* useState: "dagre" or "force"
    selectedNodeId,    \* useState: a node id or Null
    isLayoutResetRef,  \* useRef: BOOLEAN
    layoutNodes,       \* layoutNodes of the current run of the layout effect
    edgeConnections,   \* the connection sides bound to the rendered links
    linkPath,          \* attribute d of each rendered link
    linkOpacity,       \* attribute stroke-opacity of each rendered link
    linkMarker,        \* attribute marker-end of each rendered link
    nodeClass,         \* the selection classes of each rendered node group
    zoomTransform,     \* the zoom transform d3 keeps on the svg element
    groupTransform,    \* attribute transform of the current svgGroup
    transform,         \* useState: the transform shown in the zoom-info line
    zoomTransition,    \* the transition resetZoom started: "none", "live", "stale"
    selectionTimer,    \* the timeout of the selection effect is pending
    drag,              \* the d3 drag gesture in progress: [id, live]
    call,              \* one call of a pure function (its own specifications)
    mounted            \* the effects of the first render have run

vars == <<props, layoutAlgorithm, selectedNodeId, isLayoutResetRef, layoutNodes,
          edgeConnections, linkPath, linkOpacity, linkMarker, nodeClass,
          zoomTransform, groupTransform, transform, zoomTransition,
          selectionTimer, drag, call, mounted>>

viewVars == <<props, layoutAlgorithm, selectedNodeId, isLayoutResetRef, layoutNodes,
              edgeConnections, linkPath, linkOpacity, linkMarker, nodeClass,
              zoomTransform, groupTransform, transform, zoomTransition,
              selectionTimer, drag, mounted>>

(***************************************************************************)
(* Bounds.                                                                 *)
(***************************************************************************)
MaxCol == 2      \* pure specifications: columns 0 .. MaxCol of positions
MaxRow == 2      \* pure specifications: rows 0 .. MaxRow of positions
MaxRank == 1     \* view: ranks 0 .. MaxRank the hierarchical layout places nodes at
MaxOrder == 0    \* view: orders 0 .. MaxOrder within a rank
MaxDrag == 0     \* view: pointer positions 0 .. MaxDrag of a drag tick
MaxJitter == 0   \* view: values 0 .. MaxJitter of Math.random() - 0.5, in steps
MaxEdges == 2    \* selection pass as a function: graphs of 0 .. MaxEdges edges
MaxNodes == 3    \* grid-scatter layout as a function: graphs of 0 .. MaxNodes nodes

(***************************************************************************)
(* Program constants.                                                      *)
(***************************************************************************)
NODE_WIDTH == 200
NODE_HEIGHT == 100
samples == 20

Abs(v) == IF v < 0 THEN -v ELSE v
Min(a, b) == IF a <= b THEN a ELSE b
Max(a, b) == IF a >= b THEN a ELSE b

Pt(px, py) == [x |-> px, y |-> py]

(***************************************************************************)
(* edgeUtils.ts                                                            *)
(***************************************************************************)

\* isPointInNode: point is the pair of numerators of a point over the
\* denominator s; node is [x, y, width, height] with (x, y) its centre.
\* Both sides of each comparison are multiplied by 2 * s.
isPointInNode(point, s, node) ==
    /\ 2 * point.x >= (2 * node.x - node.width) * s
    /\ 2 * point.x <= (2 * node.x + node.width) * s
    /\ 2 * point.y >= (2 * node.y - node.height) * s
    /\ 2 * point.y <= (2 * node.y + node.height) * s

\* The common denominator of the points sampled at t = i / (samples - 1).
SampleDen == (samples - 1) * (samples - 1) * (samples - 1)

\* getBezierPoint at t = i / (samples - 1): numerators over SampleDen, in the
\* unit of the curve.
getBezierPoint(curve, i) ==
    LET t   == i
        mt  == (samples - 1) - i
        mt2 == mt * mt
        mt3 == mt2 * mt
        t2  == t * t
        t3  == t2 * t
    IN  [x |-> mt3 * curve.start.x + 3 * mt2 * t * curve.control1.x
                 + 3 * mt * t2 * curve.control2.x + t3 * curve.end.x,
         y |-> mt3 * curve.start.y + 3 * mt2 * t * curve.control1.y
                 + 3 * mt * t2 * curve.control2.y + t3 * curve.end.y]

\* doesCurveIntersectNodes: nodes is a function from node id to position.
\* As doesCurveIntersectNodes, but the loop stops half way along the curve.
doesCurveIntersectNodesHalf(curve, nodes, nodeWidth, nodeHeight, sourceId, targetId) ==
    \E i \in 1 .. ((samples - 2) \div 2) :
        \E id \in DOMAIN nodes :
            /\ id # sourceId
            /\ id # targetId
            /\ isPointInNode(getBezierPoint(curve, i), 10 * SampleDen,
                             [x |-> nodes[id].x, y |-> nodes[id].y,
                              width |-> nodeWidth, height |-> nodeHeight])

doesCurveIntersectNodes(curve, nodes, nodeWidth, nodeHeight, sourceId, targetId) ==
    \E i \in 1 .. (samples - 2) :
        \E id \in DOMAIN nodes :
            /\ id # sourceId
            /\ id # targetId
            /\ isPointInNode(getBezierPoint(curve, i), 10 * SampleDen,
                             [x |-> nodes[id].x, y |-> nodes[id].y,
                              width |-> nodeWidth, height |-> nodeHeight])

\* calculateControlPoints.  curvature (in tenths) is accepted and not used,
\* as in the source.
calculateControlPoints(start, end, sourceConnectionSide, targetConnectionSide, curvature) ==
    IF sourceConnectionSide = "center" \/ targetConnectionSide = "center"
    THEN LET midX == (start.x + end.x) \div 2
         IN  [control1 |-> Pt(midX, start.y), control2 |-> Pt(midX, end.y)]
    ELSE LET dx == end.x - start.x
             controlOffset == Min(Abs(dx) * 5, 100 * 100) \div 10
             sourceDirection == IF sourceConnectionSide = "right" THEN 1 ELSE -1
             targetDirection == IF targetConnectionSide = "right" THEN 1 ELSE -1
         IN  [control1 |-> Pt(start.x + sourceDirection * controlOffset, start.y),
              control2 |-> Pt(end.x + targetDirection * controlOffset, end.y)]

\* The curvature multipliers, in tenths.
curvatureOptions == <<3, 5, 7, 9, 12>>

\* generateAlternativeRoute (the live one, lines 183-213).
generateAlternativeRoute(start, end, sourceConnectionSide, targetConnectionSide, nodes, nodeWidth, nodeHeight, sourceId, targetId) ==
    LET dx == end.x - start.x
        controlOffset == Min(Abs(dx) * 4, 80 * 100) \div 10
        sourceDirection == IF sourceConnectionSide = "right" THEN 1 ELSE -1
        targetDirection == IF targetConnectionSide = "right" THEN 1 ELSE -1
    IN  [start    |-> start,
         control1 |-> Pt(start.x + sourceDirection * controlOffset, start.y),
         control2 |-> Pt(end.x + targetDirection * controlOffset, end.y),
         end      |-> end]

\* The candidate curve the loop of generateOptimizedCurve builds for the
\* k-th curvature option.
trialCurve(start, end, sourceConnectionSide, targetConnectionSide, k) ==
    LET cp == calculateControlPoints(start, end, sourceConnectionSide,
                                     targetConnectionSide, curvatureOptions[k])
    IN  [start |-> start, control1 |-> cp.control1,
         control2 |-> cp.control2, end |-> end]

\* As acceptedTrial, but the loop goes on to the last option that is free.
acceptedTrialLast(start, end, sourceConnectionSide, targetConnectionSide, nodes, nodeWidth, nodeHeight, sourceId, targetId) ==
    LET free == {k \in 1 .. Len(curvatureOptions) :
                    ~ doesCurveIntersectNodes(
                          trialCurve(start, end, sourceConnectionSide,
                                     targetConnectionSide, k),
                          nodes, nodeWidth, nodeHeight, sourceId, targetId)}
    IN  IF free = {} THEN 0
        ELSE CHOOSE k \in free : \A j \in free : k >= j

\* The index of the curvature option at which the loop of
\* generateOptimizedCurve returns, 0 when it runs to its end.
acceptedTrial(start, end, sourceConnectionSide, targetConnectionSide, nodes, nodeWidth, nodeHeight, sourceId, targetId) ==
    LET free == {k \in 1 .. Len(curvatureOptions) :
                    ~ doesCurveIntersectNodes(
                          trialCurve(start, end, sourceConnectionSide,
                                     targetConnectionSide, k),
                          nodes, nodeWidth, nodeHeight, sourceId, targetId)}
    IN  IF free = {} THEN 0
        ELSE CHOOSE k \in free : \A j \in free : k <= j

\* A router that keeps state between invocations: once an invocation has
\* returned, it goes to the fallback at once.
generateOptimizedCurveStateful(start, end, sourceConnectionSide, targetConnectionSide, nodes, nodeWidth, nodeHeight, sourceId, targetId) ==
    LET k == IF call.fn = "route" /\ call.done THEN 0
             ELSE acceptedTrial(start, end, sourceConnectionSide, targetConnectionSide,
                                nodes, nodeWidth, nodeHeight, sourceId, targetId)
    IN  IF k # 0
        THEN trialCurve(start, end, sourceConnectionSide, targetConnectionSide, k)
        ELSE generateAlternativeRoute(start, end, sourceConnectionSide,
                                      targetConnectionSide, nodes, nodeWidth,
                                      nodeHeight, sourceId, targetId)

generateOptimizedCurve(start, end, sourceConnectionSide, targetConnectionSide, nodes, nodeWidth, nodeHeight, sourceId, targetId) ==
    LET k == acceptedTrial(start, end, sourceConnectionSide, targetConnectionSide,
                           nodes, nodeWidth, nodeHeight, sourceId, targetId)
    IN  IF k # 0
        THEN trialCurve(start, end, sourceConnectionSide, targetConnectionSide, k)
        ELSE generateAlternativeRoute(start, end, sourceConnectionSide,
                                      targetConnectionSide, nodes, nodeWidth,
                                      nodeHeight, sourceId, targetId)

\* The path of the curve as a cubic Bezier command: M start C control1,
\* control2, end (the numbers it prints, in twentieths of a pixel).
bezierCurveToPathCubic(curve) ==
    <<2 * curve.start.x, 2 * curve.start.y,
      2 * curve.control1.x, 2 * curve.control1.y,
      2 * curve.control2.x, 2 * curve.control2.y,
      2 * curve.end.x, 2 * curve.end.y>>

\* bezierCurveToPath.  The path string is modelled by the sequence of the
\* numbers it prints, in order: M, L, Q, L, Q, L, each in twentieths of a
\* pixel (the curve is in tenths).  The empty string is <<>>.
bezierCurveToPath(curve) ==
    LET start == Pt(2 * curve.start.x, 2 * curve.start.y)
        end == Pt(2 * curve.end.x, 2 * curve.end.y)
        middleX == (start.x + end.x) \div 2
        horizontalLength1 == Abs(middleX - start.x)
        horizontalLength2 == Abs(end.x - middleX)
        verticalLength == Abs(end.y - start.y)
        minSegment == Min(Min(horizontalLength1, horizontalLength2), verticalLength)
        cornerRadius == Min(Max((minSegment * 3) \div 10, 8 * 20), 20 * 20)
        goingDown == end.y > start.y
        goingLeft == start.x > middleX
        goingRight == end.x > middleX
        corner1Start == Pt(middleX - (IF goingLeft THEN -cornerRadius ELSE cornerRadius), start.y)
        corner1End == Pt(middleX, start.y + (IF goingDown THEN cornerRadius ELSE -cornerRadius))
        corner2Start == Pt(middleX, end.y - (IF goingDown THEN cornerRadius ELSE -cornerRadius))
        corner2End == Pt(middleX + (IF goingRight THEN cornerRadius ELSE -cornerRadius), end.y)
    IN  <<start.x, start.y,
          corner1Start.x, corner1Start.y,
          middleX, start.y, corner1End.x, corner1End.y,
          corner2Start.x, corner2Start.y,
          middleX, end.y, corner2End.x, corner2End.y,
          end.x, end.y>>

(***************************************************************************)
(* The anchor of an edge on a node at pos (D3Graph.tsx, lines 365-377 and  *)
(* 530-542), in tenths of a pixel.                                         *)
(***************************************************************************)
anchor(pos, side) ==
    Pt(10 * (IF side = "right" THEN pos.x + NODE_WIDTH \div 2
                               ELSE pos.x - NODE_WIDTH \div 2),
       10 * pos.y)

(***************************************************************************)
(* Fractions <<num, den>>, den > 0, in lowest terms: the values of the     *)
(* viewport transform.                                                     *)
(***************************************************************************)
RECURSIVE GCD(_, _)
GCD(a, b) == IF b = 0 THEN a ELSE GCD(b, a % b)

Frac(n, d) ==
    LET g == GCD(Abs(n), Abs(d))
        sgn == IF d < 0 THEN -1 ELSE 1
    IN  <<(sgn * n) \div g, (sgn * d) \div g>>

FInt(n) == <<n, 1>>
FMul(p, q) == Frac(p[1] * q[1], p[2] * q[2])
FSub(p, q) == Frac(p[1] * q[2] - q[1] * p[2], p[2] * q[2])
FAdd(p, q) == Frac(p[1] * q[2] + q[1] * p[2], p[2] * q[2])
FLeq(p, q) == p[1] * q[2] <= q[1] * p[2]
FLess(p, q) == p[1] * q[2] < q[1] * p[2]
FMin(p, q) == IF FLeq(p, q) THEN p ELSE q
FMax(p, q) == IF FLeq(p, q) THEN q ELSE p

SetMin(S) == CHOOSE v \in S : \A w \in S : v <= w
SetMax(S) == CHOOSE v \in S : \A w \in S : v >= w

(***************************************************************************)
(* D3Graph.tsx, layout effect: the fit-to-viewport computation of lines    *)
(* 245-282 for a non-empty layoutNodes (nodes, a function from node id to  *)
(* position) and layoutAlgorithm (algorithm).                              *)
(***************************************************************************)
\* The scale of the fit as FitTransform takes it, with Math.max in the place
\* of the inner Math.min.
FitScaleLoose(scaleX, scaleY, maxScale) == FMin(FMax(scaleX, scaleY), maxScale)

FitScale(scaleX, scaleY, maxScale) == FMin(FMin(scaleX, scaleY), maxScale)

FitTransform(nodes, algorithm, numericWidth, numericHeight) ==
    LET minX == SetMin({nodes[n].x - NODE_WIDTH \div 2 : n \in DOMAIN nodes})
        maxX == SetMax({nodes[n].x + NODE_WIDTH \div 2 : n \in DOMAIN nodes})
        minY == SetMin({nodes[n].y - NODE_HEIGHT \div 2 : n \in DOMAIN nodes})
        maxY == SetMax({nodes[n].y + NODE_HEIGHT \div 2 : n \in DOMAIN nodes})
        contentWidth == maxX - minX
        contentHeight == maxY - minY
        contentCenterX == Frac(minX + maxX, 2)
        contentCenterY == Frac(minY + maxY, 2)
        padding == IF algorithm = "dagre" THEN 20 ELSE 40
        paddedWidth == contentWidth + 2 * padding
        paddedHeight == contentHeight + 2 * padding
        f == IF algorithm = "dagre" THEN 9 ELSE 8
        scaleX == Frac(numericWidth * f, 10 * paddedWidth)
        scaleY == Frac(numericHeight * f, 10 * paddedHeight)
        maxScale == IF algorithm = "dagre" THEN Frac(2, 1) ELSE Frac(12, 10)
        scale == FitScale(scaleX, scaleY, maxScale)
    IN  [x |-> FSub(Frac(numericWidth, 2), FMul(contentCenterX, scale)),
         y |-> FSub(Frac(numericHeight, 2), FMul(contentCenterY, scale)),
         k |-> scale]

(***************************************************************************)
(* D3Graph.tsx: the props, the layouts, the rendering of links and nodes.  *)
(***************************************************************************)
Null == "null"

Edge(s, t, a) == [source |-> s, target |-> t, access |-> a]

\* The graphs the component is given.  "x" is an id no node has.
GraphPair == [nodes |-> <<"a", "b">>, edges |-> <<Edge("a", "b", "ALLOW"), Edge("b", "b", "DENY"), Edge("b", "x", "ALLOW")>>]
GraphEmpty == [nodes |-> <<>>, edges |-> <<>>]

\* The props: the data and the numeric width and height of the viewport.
PropsSets ==
    {[data |-> GraphPair, width |-> 60, height |-> 40],
     [data |-> GraphEmpty, width |-> 800, height |-> 600]}

IDs(data) == {data.nodes[i] : i \in DOMAIN data.nodes}
IndexOf(data, id) == CHOOSE i \in DOMAIN data.nodes : data.nodes[i] = id

zoomIdentity == [x |-> FInt(0), y |-> FInt(0), k |-> FInt(1)]
\* A drag gesture: the node id, whether the rendering it started on is the
\* current one, the subject d3 took at the start, and the pointer position at
\* the start (in the coordinates of svgGroup).
NoDrag == [id |-> Null, live |-> FALSE, subject |-> Pt(0, 0), grab |-> Pt(0, 0)]

\* calculateDagreLayout: dagre is outside the program; any placement of the
\* nodes at distinct places, on ranks 320 apart and orders 180 apart, is a
\* possible result.
LayoutPos == {Pt(320 * i, 180 * j) : i \in 0 .. MaxRank, j \in 0 .. MaxOrder}
calculateDagreLayout(data) ==
    {nodes \in [IDs(data) -> LayoutPos] :
        \A m, n \in IDs(data) : m # n => nodes[m] # nodes[n]}

\* The values of Math.random() - 0.5 that are drawn, in sixths.
RandomSixths == {2 * i - 3 : i \in 0 .. MaxJitter}

\* calculateForceLayout for the draws random[id] = <<forX, forY>>.
calculateForceLayout(data, width, height, random) ==
    LET nodeCount == Len(data.nodes)
        cols == CHOOSE c \in 1 .. nodeCount + 1 :
                    /\ 2 * c * c >= 3 * nodeCount
                    /\ \A b \in 1 .. c - 1 : 2 * b * b < 3 * nodeCount
        rows == (nodeCount + cols - 1) \div cols
        marginX == width \div 20
        marginY == height \div 20
        availableWidth == width - 2 * marginX
        availableHeight == height - 2 * marginY
        cellWidth == Max(availableWidth \div cols, NODE_WIDTH + 20)
        cellHeight == Max(availableHeight \div rows, NODE_HEIGHT + 20)
        spreadX == Min(cellWidth \div 5, 30)
        spreadY == Min(cellHeight \div 5, 30)
    IN  IF nodeCount = 0 THEN <<>> ELSE
        [id \in IDs(data) |->
            LET index == IndexOf(data, id) - 1
                col == index % cols
                row == index \div cols
                baseX == marginX + col * cellWidth + cellWidth \div 2
                baseY == marginY + row * cellHeight + cellHeight \div 2
            IN  Pt(baseX + (random[id][1] * spreadX) \div 6,
                   baseY + (random[id][2] * spreadY) \div 6)]

\* The possible values of layoutNodes (lines 233-235).
LayoutChoices(data, algorithm, width, height) ==
    IF algorithm = "dagre"
    THEN calculateDagreLayout(data)
    ELSE {calculateForceLayout(data, width, height, random) :
              random \in [IDs(data) -> RandomSixths \X RandomSixths]}

\* sourceNode?.x || 0
XOrZero(nodes, id) == IF id \in DOMAIN nodes THEN nodes[id].x ELSE 0
YOrZero(nodes, id) == IF id \in DOMAIN nodes THEN nodes[id].y ELSE 0

\* The connection sides of one edge (lines 330-334), with > in the place
\* of <.
connectionSidesGt(sourceX, targetX) ==
    [sourceConnectionSide |-> IF sourceX > targetX THEN "right" ELSE "left",
     targetConnectionSide |-> IF sourceX > targetX THEN "left" ELSE "right"]

connectionSides(sourceX, targetX) ==
    [sourceConnectionSide |-> IF sourceX < targetX THEN "right" ELSE "left",
     targetConnectionSide |-> IF sourceX < targetX THEN "left" ELSE "right"]

\* The connection sides of the rendering before, kept when the edges are as
\* many as before.
edgeConnectionsKept(data, nodes) ==
    IF DOMAIN edgeConnections = DOMAIN data.edges /\ DOMAIN data.edges # {}
    THEN edgeConnections
    ELSE [i \in DOMAIN data.edges |->
             connectionSides(XOrZero(nodes, data.edges[i].source),
                             XOrZero(nodes, data.edges[i].target))]

\* edgeConnections (lines 320-335).
edgeConnectionsOf(data, nodes) ==
    [i \in DOMAIN data.edges |->
        connectionSides(XOrZero(nodes, data.edges[i].source),
                        XOrZero(nodes, data.edges[i].target))]

\* The path of a link between the centres source and target.
routedPath(source, target, conn, nodes, sourceId, targetId) ==
    bezierCurveToPath(
        generateOptimizedCurve(anchor(source, conn.sourceConnectionSide),
                               anchor(target, conn.targetConnectionSide),
                               conn.sourceConnectionSide, conn.targetConnectionSide,
                               nodes, NODE_WIDTH, NODE_HEIGHT, sourceId, targetId))

\* Attribute d of a link at creation (lines 357-392).
linkD(edge, conn, nodes) ==
    IF edge.source \notin DOMAIN nodes \/ edge.target \notin DOMAIN nodes
    THEN <<>>
    ELSE routedPath(nodes[edge.source], nodes[edge.target], conn, nodes,
                    edge.source, edge.target)

\* Attribute d a drag tick of node id at event gives a link that touches id
\* (lines 525-556).
draggedD(edge, conn, nodes, id, event) ==
    LET source == IF edge.source = id THEN event
                  ELSE Pt(XOrZero(nodes, edge.source), YOrZero(nodes, edge.source))
        target == IF edge.target = id THEN event
                  ELSE Pt(XOrZero(nodes, edge.target), YOrZero(nodes, edge.target))
    IN  routedPath(source, target, conn, nodes, edge.source, edge.target)

normalMarker(edge) ==
    IF edge.access = "ALLOW" THEN "url(#arrowhead-allow)" ELSE "url(#arrowhead-deny)"
fadedMarker(edge) ==
    IF edge.access = "ALLOW" THEN "url(#arrowhead-allow-faded)"
    ELSE "url(#arrowhead-deny-faded)"

(***************************************************************************)
(* D3Graph.tsx: the component.  Init is the component as constructed (the  *)
(* useState and useRef initial values, an empty svg); Mount is the first   *)
(* run of its effects.  A state change and the effects it triggers form    *)
(* one step: React runs the handler, the render and the effects of a       *)
(* discrete event without yielding to another event.  layoutDirection is   *)
(* not kept: it only feeds dagre, whose result is any placement.           *)
(***************************************************************************)
\* The component as constructed with props p, before its effects have run.
Constructed(p) ==
    /\ mounted = FALSE
    /\ props = p
    /\ layoutAlgorithm = "dagre"
    /\ selectedNodeId = Null
    /\ isLayoutResetRef = FALSE
    /\ layoutNodes = <<>>
    /\ edgeConnections = <<>>
    /\ linkPath = <<>>
    /\ linkOpacity = <<>>
    /\ linkMarker = <<>>
    /\ nodeClass = <<>>
    /\ zoomTransform = zoomIdentity
    /\ groupTransform = zoomIdentity
    /\ transform = zoomIdentity
    /\ zoomTransition = "none"
    /\ selectionTimer = FALSE
    /\ drag = NoDrag

Init ==
    /\ \E p \in PropsSets : Constructed(p)
    /\ call = [fn |-> "none"]

\* The transform of the zero-node branch, with the translation left out.
centerTransformOrigin(numericWidth, numericHeight) ==
    [x |-> FInt(0), y |-> FInt(0), k |-> FInt(1)]

\* Lines 303-308: the transform of the branch for a layout without nodes.
centerTransformOf(numericWidth, numericHeight) ==
    [x |-> Frac(numericWidth, 2), y |-> Frac(numericHeight, 2), k |-> FInt(1)]

\* The layout effect (lines 144-575) run for props p and algorithm, with
\* isLayoutResetRef.current = flag when it starts; thenResetZoom: the
\* resetZoom effect (lines 687-689) runs after it.
LayoutEffect(p, algorithm, flag, thenResetZoom) ==
    /\ layoutNodes' \in LayoutChoices(p.data, algorithm, p.width, p.height)
    /\ IF DOMAIN layoutNodes' # {}
       THEN /\ IF ~ flag
               THEN LET initialTransform ==
                            FitTransform(layoutNodes', algorithm, p.width, p.height)
                    IN  /\ zoomTransform' = initialTransform
                        /\ groupTransform' = initialTransform
                        /\ transform' = initialTransform
                        /\ zoomTransition' = IF thenResetZoom THEN "live" ELSE "none"
               ELSE /\ zoomTransform' = zoomTransform
                    /\ groupTransform' = zoomIdentity
                    /\ transform' = transform
                    /\ zoomTransition' = IF thenResetZoom THEN "live"
                                         ELSE IF zoomTransition = "none" THEN "none"
                                         ELSE "stale"
            /\ isLayoutResetRef' = FALSE
       ELSE LET centerTransform == centerTransformOf(p.width, p.height)
            IN  /\ zoomTransform' = centerTransform
                /\ groupTransform' = centerTransform
                /\ transform' = centerTransform
                /\ zoomTransition' = IF thenResetZoom THEN "live" ELSE "none"
                /\ isLayoutResetRef' = flag
    /\ edgeConnections' = edgeConnectionsOf(p.data, layoutNodes')
    /\ linkPath' = [i \in DOMAIN p.data.edges |->
                       linkD(p.data.edges[i], edgeConnections'[i], layoutNodes')]
    /\ linkOpacity' = [i \in DOMAIN p.data.edges |-> 1]
    /\ linkMarker' = [i \in DOMAIN p.data.edges |-> normalMarker(p.data.edges[i])]
    /\ nodeClass' = [id \in DOMAIN layoutNodes' |-> {}]
    /\ drag' = [drag EXCEPT !.live = FALSE]

\* The first render: the layout effect, the selection effect (which arms
\* its timeout) and the resetZoom effect run, in this order.
Mount ==
    /\ ~ mounted
    /\ mounted' = TRUE
    /\ LayoutEffect(props, layoutAlgorithm, isLayoutResetRef, TRUE)
    /\ selectionTimer' = TRUE
    /\ UNCHANGED <<props, layoutAlgorithm, selectedNodeId, call>>

\* The parent passes new data (a new object, also when its content is the
\* same): the layout effect and the selection effect run.
DataChange(p) ==
    /\ mounted
    /\ props' = p
    /\ LayoutEffect(p, layoutAlgorithm, isLayoutResetRef, FALSE)
    /\ selectionTimer' = TRUE
    /\ UNCHANGED <<mounted, layoutAlgorithm, selectedNodeId, call>>

\* The direction select (rendered for dagre only) takes another value.
SetLayoutDirection ==
    /\ mounted
    /\ layoutAlgorithm = "dagre"
    /\ LayoutEffect(props, layoutAlgorithm, isLayoutResetRef, FALSE)
    /\ UNCHANGED <<mounted, props, layoutAlgorithm, selectedNodeId, selectionTimer, call>>

SetLayoutAlgorithm(algorithm) ==
    /\ mounted
    /\ algorithm # layoutAlgorithm
    /\ layoutAlgorithm' = algorithm
    /\ LayoutEffect(props, algorithm, isLayoutResetRef, FALSE)
    /\ UNCHANGED <<mounted, props, selectedNodeId, selectionTimer, call>>

\* resetLayout (lines 691-698), then the effects of layoutResetTrigger.
resetLayout ==
    /\ mounted
    /\ LayoutEffect(props, layoutAlgorithm, TRUE, TRUE)
    /\ UNCHANGED <<mounted, props, layoutAlgorithm, selectedNodeId, selectionTimer, call>>

\* resetZoom (lines 675-685), from the Reset Zoom button.
resetZoom ==
    /\ mounted
    /\ zoomTransition' = "live"
    /\ UNCHANGED <<mounted, props, layoutAlgorithm, selectedNodeId, isLayoutResetRef,
                   layoutNodes, edgeConnections, linkPath, linkOpacity, linkMarker,
                   nodeClass, zoomTransform, groupTransform, transform,
                   selectionTimer, drag, call>>

\* The transition of resetZoom reaches d3.zoomIdentity.  A transition that a
\* later run of the layout effect did not interrupt drives the zoom handler
\* of the run that started it: it writes the svg's zoom transform and the
\* React state, and the transform attribute of a removed group.
TransitionEnd ==
    /\ zoomTransition # "none"
    /\ zoomTransform' = zoomIdentity
    /\ transform' = zoomIdentity
    /\ groupTransform' = IF zoomTransition = "live" THEN zoomIdentity ELSE groupTransform
    /\ zoomTransition' = "none"
    /\ UNCHANGED <<mounted, props, layoutAlgorithm, selectedNodeId, isLayoutResetRef,
                   layoutNodes, edgeConnections, linkPath, linkOpacity, linkMarker,
                   nodeClass, selectionTimer, drag, call>>

\* The transforms a wheel or pan gesture ends at: d3 keeps the scale of a
\* gesture within scaleExtent([0.1, 10]).
GestureTransforms == {[x |-> FInt(-100), y |-> FInt(50), k |-> FInt(10)]}

\* The zoom handler (lines 216-220) for a user gesture, which interrupts a
\* running transition.
ZoomGesture(t) ==
    /\ mounted
    /\ drag.id = Null
    /\ zoomTransform' = t
    /\ groupTransform' = t
    /\ transform' = t
    /\ zoomTransition' = "none"
    /\ UNCHANGED <<mounted, props, layoutAlgorithm, selectedNodeId, isLayoutResetRef,
                   layoutNodes, edgeConnections, linkPath, linkOpacity, linkMarker,
                   nodeClass, selectionTimer, drag, call>>

\* The value handleNodeClick gives selectedNodeId, with the deselection
\* left out.
nextSelectedAlways(prevSelected, nodeId) == nodeId

\* As nextSelected, but a click on another node leaves the selection.
nextSelectedSticky(prevSelected, nodeId) ==
    IF prevSelected = nodeId THEN Null
    ELSE IF prevSelected = Null THEN nodeId ELSE prevSelected

\* handleNodeClick (lines 133-142): the value it gives selectedNodeId.
nextSelected(prevSelected, nodeId) ==
    IF prevSelected = nodeId THEN Null ELSE nodeId

\* A click on the rendered node nodeId; the selection effect arms its
\* timeout.
handleNodeClick(nodeId) ==
    /\ mounted
    /\ drag.id = Null
    /\ nodeId \in DOMAIN layoutNodes
    /\ selectedNodeId' = nextSelected(selectedNodeId, nodeId)
    /\ selectionTimer' = TRUE
    /\ UNCHANGED <<mounted, props, layoutAlgorithm, isLayoutResetRef,
                   layoutNodes, edgeConnections, linkPath, linkOpacity, linkMarker,
                   nodeClass, zoomTransform, groupTransform, transform,
                   zoomTransition, drag, call>>

\* The connected node ids, from the edges that leave the selected node only.
connectedNodeIdsOutgoing(edges, selected) ==
    {edges[i].target : i \in {j \in DOMAIN edges : edges[j].source = selected}}

\* connectedNodeIds (lines 641-653) for the selected node id.
connectedNodeIdsOf(edges, selected) ==
    {edges[i].target : i \in {j \in DOMAIN edges : edges[j].source = selected}}
    \cup
    {edges[i].source : i \in {j \in DOMAIN edges : edges[j].target = selected}}

\* The selection effect's timeout callback (lines 582-668).
selectionPass ==
    /\ selectionTimer
    /\ selectionTimer' = FALSE
    /\ LET edges == props.data.edges
           isConnected(i) == \/ edges[i].source = selectedNodeId
                             \/ edges[i].target = selectedNodeId
           connectedNodeIds == connectedNodeIdsOf(edges, selectedNodeId)
       IN  /\ linkOpacity' = [i \in DOMAIN edges |->
                                 IF selectedNodeId = Null THEN 1
                                 ELSE IF isConnected(i) THEN 1 ELSE 0]
           /\ linkMarker' = [i \in DOMAIN edges |->
                                IF selectedNodeId = Null \/ isConnected(i)
                                THEN normalMarker(edges[i])
                                ELSE fadedMarker(edges[i])]
           /\ nodeClass' =
                 IF selectedNodeId = Null
                 THEN [id \in DOMAIN layoutNodes |-> {}]
                 ELSE [id \in DOMAIN layoutNodes |->
                          (IF id = selectedNodeId THEN {"selected"} ELSE {})
                          \cup (IF id \in connectedNodeIds THEN {"connected"} ELSE {})
                          \cup (IF id # selectedNodeId /\ id \notin connectedNodeIds
                                THEN {"unselected"} ELSE {})]
    /\ UNCHANGED <<mounted, props, layoutAlgorithm, selectedNodeId, isLayoutResetRef,
                   layoutNodes, edgeConnections, linkPath, zoomTransform,
                   groupTransform, transform, zoomTransition, drag, call>>

\* The positions event.x, event.y of the drag ticks, in the coordinates of
\* svgGroup.
DragPos == {Pt(400 * i - 400, 90 * i) : i \in 0 .. MaxDrag}

\* The offsets of the pointer from the centre of the node it grabs.
GrabOffsets == {Pt(30, -20)}

\* The pointer positions of the drag ticks, in the coordinates of svgGroup.
PointerPos == {Pt(e.x + o.x, e.y + o.y) : e \in DragPos, o \in GrabOffsets}

\* A subject accessor that returns the position of the pointer.
dragSubjectPointer(nodes, id, pointer) == pointer

\* The subject accessor of the drag behaviour (lines 407-411); every
\* rendered node is in layoutNodes.
dragSubject(nodes, id, pointer) == nodes[id]

\* d3-drag: the position event.x, event.y of a drag event is the pointer
\* position displaced by the offset of the subject from the pointer at the
\* start of the gesture.
dragEvent(subject, grab, pointer) ==
    Pt(pointer.x + subject.x - grab.x, pointer.y + subject.y - grab.y)

\* dragstarted (lines 468-492) on the rendered node id, with the subject d3
\* has taken before it calls the handler.
dragstarted(id) ==
    /\ mounted
    /\ drag.id = Null
    /\ id \in DOMAIN layoutNodes
    /\ \E o \in GrabOffsets :
          LET pointer == Pt(layoutNodes[id].x + o.x, layoutNodes[id].y + o.y)
          IN  drag' = [id |-> id, live |-> TRUE,
                       subject |-> dragSubject(layoutNodes, id, pointer),
                       grab |-> pointer]
    /\ UNCHANGED <<mounted, props, layoutAlgorithm, selectedNodeId, isLayoutResetRef,
                   layoutNodes, edgeConnections, linkPath, linkOpacity, linkMarker,
                   nodeClass, zoomTransform, groupTransform, transform,
                   zoomTransition, selectionTimer, call>>

\* The test of dragged on a link, with the target left out.
touchesSource(edge, id) == edge.source = id

\* Line 523: the link is connected to the dragged node.
touches(edge, id) == edge.source = id \/ edge.target = id

\* The drag handlers of every run writing the current rendering.
writesCurrentRenderingAlways(live) == TRUE

\* dragged reads layoutNodes, link and svgGroup through the closure of the
\* run of the layout effect that attached it (lines 211, 233, 338): it
\* writes the current rendering only if that run is the current one.
writesCurrentRendering(live) == live

\* A drag tick that leaves the position of the node as it was.
draggedNodesUnwritten(nodes, id, event) == nodes

\* Lines 509-514: layoutNodes after a drag tick of node id.
draggedNodes(nodes, id, event) ==
    IF id \in DOMAIN nodes THEN [nodes EXCEPT ![id] = event] ELSE nodes

\* Lines 517-558: the rendered paths after a drag tick of node id, nodes
\* being layoutNodes after the tick.
draggedPaths(paths, edges, conns, nodes, id, event) ==
    [i \in DOMAIN paths |->
        IF touches(edges[i], id)
        THEN draggedD(edges[i], conns[i], nodes, id, event)
        ELSE paths[i]]

\* dragged (lines 494-559) at the pointer position event.
dragged(event) ==
    /\ drag.id # Null
    /\ IF writesCurrentRendering(drag.live)
       THEN /\ layoutNodes' = draggedNodes(layoutNodes, drag.id, event)
            /\ linkPath' = draggedPaths(linkPath, props.data.edges, edgeConnections,
                                        layoutNodes', drag.id, event)
       ELSE UNCHANGED <<layoutNodes, linkPath>>
    /\ UNCHANGED <<mounted, props, layoutAlgorithm, selectedNodeId, isLayoutResetRef,
                   edgeConnections, linkOpacity, linkMarker, nodeClass, zoomTransform,
                   groupTransform, transform, zoomTransition, selectionTimer, drag,
                   call>>

\* A drag end that snaps the released node to the origin of svgGroup.
dragendedSnap ==
    /\ drag.id # Null
    /\ drag' = NoDrag
    /\ layoutNodes' = IF drag.live THEN draggedNodes(layoutNodes, drag.id, Pt(0, 0))
                      ELSE layoutNodes
    /\ UNCHANGED <<mounted, props, layoutAlgorithm, selectedNodeId, isLayoutResetRef,
                   edgeConnections, linkPath, linkOpacity, linkMarker,
                   nodeClass, zoomTransform, groupTransform, transform,
                   zoomTransition, selectionTimer, call>>

\* dragended (lines 561-568).
dragended ==
    /\ drag.id # Null
    /\ drag' = NoDrag
    /\ UNCHANGED <<mounted, props, layoutAlgorithm, selectedNodeId, isLayoutResetRef,
                   layoutNodes, edgeConnections, linkPath, linkOpacity, linkMarker,
                   nodeClass, zoomTransform, groupTransform, transform,
                   zoomTransition, selectionTimer, call>>

Next ==
    \/ Mount
    \/ \E p \in PropsSets : DataChange(p)
    \/ SetLayoutDirection
    \/ \E algorithm \in {"dagre", "force"} : SetLayoutAlgorithm(algorithm)
    \/ resetLayout
    \/ resetZoom
    \/ TransitionEnd
    \/ \E t \in GestureTransforms : ZoomGesture(t)
    \/ \E id \in DOMAIN layoutNodes : handleNodeClick(id)
    \/ selectionPass
    \/ \E id \in DOMAIN layoutNodes : dragstarted(id)
    \/ \E pointer \in PointerPos : dragged(dragEvent(drag.subject, drag.grab, pointer))
    \/ dragended

Spec == Init /\ [][Next]_vars

(***************************************************************************)
(* Specification of the router as a function: one call of                  *)
(* generateOptimizedCurve for the edge A -> B among the nodes A, B, C.     *)
(***************************************************************************)
RouteXs == {200 * i : i \in 0 .. MaxCol}
RouteYs == {50 * j : j \in 0 .. MaxRow}
RoutePos == {Pt(px, py) : px \in RouteXs, py \in RouteYs}
Sides == {"left", "right"}
NoCurve == [start |-> Pt(0, 0), control1 |-> Pt(0, 0),
            control2 |-> Pt(0, 0), end |-> Pt(0, 0)]
NoCall == [fn |-> "none"]

IdleProps == [data |-> GraphEmpty, width |-> 800, height |-> 600]

RouteInit ==
    /\ Constructed(IdleProps)
    /\ call \in {[fn |-> "route", done |-> FALSE,
               nodes |-> [id \in {"A", "B", "C"} |->
                             IF id = "A" THEN pa ELSE IF id = "B" THEN pb ELSE pc],
               sourceSide |-> ss, targetSide |-> ts,
               trial |-> 0, curve |-> NoCurve,
               again |-> FALSE, curve2 |-> NoCurve] :
                 pa \in RoutePos, pb \in RoutePos, pc \in RoutePos,
                 ss \in Sides, ts \in Sides}

RouteStart == anchor(call.nodes["A"], call.sourceSide)
RouteEnd == anchor(call.nodes["B"], call.targetSide)

RouteCall ==
    /\ call.fn = "route"
    /\ ~ call.done
    /\ call' = [call EXCEPT
          !.done = TRUE,
          !.trial = acceptedTrial(RouteStart, RouteEnd, call.sourceSide,
                                  call.targetSide, call.nodes, NODE_WIDTH,
                                  NODE_HEIGHT, "A", "B"),
          !.curve = generateOptimizedCurve(RouteStart, RouteEnd, call.sourceSide,
                                           call.targetSide, call.nodes, NODE_WIDTH,
                                           NODE_HEIGHT, "A", "B")]
    /\ UNCHANGED viewVars

\* A second invocation with the arguments of the first.
RouteAgain ==
    /\ call.fn = "route"
    /\ call.done
    /\ ~ call.again
    /\ call' = [call EXCEPT
          !.again = TRUE,
          !.curve2 = generateOptimizedCurve(RouteStart, RouteEnd, call.sourceSide,
                                            call.targetSide, call.nodes, NODE_WIDTH,
                                            NODE_HEIGHT, "A", "B")]
    /\ UNCHANGED viewVars

RouteNext == RouteCall \/ RouteAgain
SpecRoute == RouteInit /\ [][RouteNext]_vars

(***************************************************************************)
(* Claims about the router.                                                *)
(***************************************************************************)

\* Sample i (t = i / 19) of curve (in tenths of a pixel) lies in the 200 x 100
\* rectangle centred at pos, boundaries included.  Written out from the cubic
\* Bezier formula with the weights over 19^3 = 6859.
SampleInRect(curve, i, pos) ==
    LET w0 == (19 - i) * (19 - i) * (19 - i)
        w1 == 3 * (19 - i) * (19 - i) * i
        w2 == 3 * (19 - i) * i * i
        w3 == i * i * i
        sx == w0 * curve.start.x + w1 * curve.control1.x
                + w2 * curve.control2.x + w3 * curve.end.x
        sy == w0 * curve.start.y + w1 * curve.control1.y
                + w2 * curve.control2.y + w3 * curve.end.y
    IN  /\ sx >= 68590 * (pos.x - 100) /\ sx <= 68590 * (pos.x + 100)
        /\ sy >= 68590 * (pos.y - 50)  /\ sy <= 68590 * (pos.y + 50)

C1Scenario ==
    /\ call.fn = "route"
    /\ call.done
    /\ call.nodes["A"] = Pt(0, 0)
    /\ call.nodes["B"] = Pt(400, 0)
    /\ call.nodes["C"] = Pt(200, 0)
    /\ call.sourceSide = "right"
    /\ call.targetSide = "left"

\* C1: with A(0,0), B(400,0) and the obstacle C(200,0), routing A -> B from
\* A's right side to B's left side does not return the first candidate, and
\* none of the 18 interior samples of the returned curve lies in C's
\* rectangle.
C1_ObstacleAvoided ==
    C1Scenario =>
        /\ call.curve # trialCurve(Pt(1000, 0), Pt(3000, 0), "right", "left", 1)
        /\ \A i \in 1 .. 18 : ~ SampleInRect(call.curve, i, call.nodes["C"])

\* C2: a curve returned from the curvature loop of generateOptimizedCurve
\* (not the fallback) has none of its 18 interior samples inside the
\* rectangle of a node other than the source and the target.
C2_AcceptedCurveClear ==
    (call.fn = "route" /\ call.done /\ call.trial # 0) =>
        \A i \in 1 .. 18 :
            \A id \in DOMAIN call.nodes \ {"A", "B"} :
                ~ SampleInRect(call.curve, i, call.nodes[id])

\* An accepted trial curve with the third node horizontally between the two
\* anchors of the edge.
C2_Witness ==
    /\ call.fn = "route"
    /\ call.done
    /\ call.trial # 0
    /\ call.nodes["A"].x < call.nodes["C"].x
    /\ call.nodes["C"].x < call.nodes["B"].x

(***************************************************************************)
(* Specification of the fit-to-viewport computation as a function of the   *)
(* positioned nodes, the layout algorithm and the numeric viewport size.   *)
(***************************************************************************)
FitPos == {Pt(320 * i, 180 * j) : i \in 0 .. MaxCol, j \in 0 .. MaxRow}
FitSizes == {<<800, 600>>, <<800, 1080>>, <<80, 60>>}
Algorithms == {"dagre", "force"}
NoTransform == [x |-> FInt(0), y |-> FInt(0), k |-> FInt(1)]

FitInit ==
    /\ Constructed(IdleProps)
    /\ call \in {[fn |-> "fit", done |-> FALSE, nodes |-> ns, algorithm |-> alg,
               width |-> sz[1], height |-> sz[2], result |-> NoTransform] :
                 ns \in UNION {[S -> FitPos] : S \in (SUBSET {"A", "B", "C"}) \ {{}}},
                 alg \in Algorithms, sz \in FitSizes}

FitCall ==
    /\ call.fn = "fit"
    /\ ~ call.done
    /\ call' = [call EXCEPT
          !.done = TRUE,
          !.result = FitTransform(call.nodes, call.algorithm, call.width, call.height)]
    /\ UNCHANGED viewVars

FitNext == FitCall
SpecFit == FitInit /\ [][FitNext]_vars

\* The bounding box of the footprints of the positioned nodes ns.
BoxMinX(ns) == SetMin({ns[n].x : n \in DOMAIN ns}) - 100
BoxMaxX(ns) == SetMax({ns[n].x : n \in DOMAIN ns}) + 100
BoxMinY(ns) == SetMin({ns[n].y : n \in DOMAIN ns}) - 50
BoxMaxY(ns) == SetMax({ns[n].y : n \in DOMAIN ns}) + 50

\* C6: for a non-empty set of positioned nodes and a viewport of positive
\* size, the fit scale makes the content no wider and no higher than the
\* viewport, and on both axes translate + contentCenter * scale is the
\* viewport centre.
C6_FitInsideAndCentred ==
    (call.fn = "fit" /\ call.done) =>
        LET ns == call.nodes
            r == call.result
        IN  /\ FLeq(FMul(FInt(BoxMaxX(ns) - BoxMinX(ns)), r.k), FInt(call.width))
            /\ FLeq(FMul(FInt(BoxMaxY(ns) - BoxMinY(ns)), r.k), FInt(call.height))
            /\ FAdd(r.x, FMul(Frac(BoxMinX(ns) + BoxMaxX(ns), 2), r.k))
                 = Frac(call.width, 2)
            /\ FAdd(r.y, FMul(Frac(BoxMinY(ns) + BoxMaxY(ns), 2), r.k))
                 = Frac(call.height, 2)

\* A fit computed for nodes that spread on both axes, with a scale below 1.
C6_Witness ==
    /\ call.fn = "fit"
    /\ call.done
    /\ BoxMaxX(call.nodes) - BoxMinX(call.nodes) > 200
    /\ BoxMaxY(call.nodes) - BoxMinY(call.nodes) > 100
    /\ FLess(call.result.k, FInt(1))


(***************************************************************************)
(* Claims about the component.                                             *)
(***************************************************************************)
LayoutStep ==
    \/ Mount
    \/ \E p \in PropsSets : DataChange(p)
    \/ SetLayoutDirection
    \/ \E algorithm \in Algorithms : SetLayoutAlgorithm(algorithm)
    \/ resetLayout

DragTick == \E event \in DragPos : dragged(event)

Present(i) ==
    /\ props.data.edges[i].source \in DOMAIN layoutNodes
    /\ props.data.edges[i].target \in DOMAIN layoutNodes

\* Every edge whose source centre is left of its target centre leaves its
\* source on the right and enters its target on the left.
SidesFollowLayout ==
    \A i \in DOMAIN props.data.edges :
        (/\ Present(i)
         /\ layoutNodes[props.data.edges[i].source].x
                < layoutNodes[props.data.edges[i].target].x)
        => /\ edgeConnections[i].sourceConnectionSide = "right"
           /\ edgeConnections[i].targetConnectionSide = "left"

\* C3: a run of the layout gives every edge whose source centre x is less
\* than its target centre x the source side right and the target side left,
\* and no step of a drag (start, tick, end) changes the connection sides of
\* any edge, wherever the tick puts the node.
C3_SidesFixedDuringDrag ==
    [][/\ LayoutStep => SidesFollowLayout'
       /\ ((\E id \in DOMAIN layoutNodes : dragstarted(id)) \/ DragTick \/ dragended)
              => edgeConnections' = edgeConnections]_vars

\* A tick of the running drag has put the target of the edge a -> b to the
\* left of its source, and the edge still leaves a on the right.
C3_Witness ==
    /\ drag.live
    /\ drag.id = "b"
    /\ layoutNodes["b"] \in DragPos
    /\ layoutNodes["b"].x < layoutNodes["a"].x
    /\ edgeConnections[1].sourceConnectionSide = "right"
    /\ edgeConnections[1].targetConnectionSide = "left"

\* C4: a tick of the drag of a rendered node A gives every edge whose source
\* or target is A the path routed from the new position of A, and leaves
\* the path of every other edge as it was.
C4_DragTickFrame ==
    [][\A event \in DragPos :
          (dragged(event) /\ drag.live)
          => \A i \in DOMAIN props.data.edges :
                LET edge == props.data.edges[i]
                IN  IF edge.source = drag.id \/ edge.target = drag.id
                    THEN linkPath'[i] = draggedD(edge, edgeConnections[i], layoutNodes',
                                                 drag.id, event)
                    ELSE linkPath'[i] = linkPath[i]]_vars

\* The drag of b has moved it: the edge a -> b, of which b is the target,
\* has a path that ends at the new place of b, and a is where the layout
\* put it.
C4_Witness ==
    /\ drag.live
    /\ drag.id = "b"
    /\ layoutNodes["b"] \in DragPos
    /\ layoutNodes["a"] \notin DragPos
    /\ linkPath[1] = draggedD(props.data.edges[1], edgeConnections[1], layoutNodes,
                              "b", layoutNodes["b"])

\* Every edge at full opacity with its normal marker, no node with a
\* selection class.
Neutral ==
    /\ \A i \in DOMAIN props.data.edges :
          /\ linkOpacity[i] = 1
          /\ linkMarker[i] = normalMarker(props.data.edges[i])
    /\ \A id \in DOMAIN layoutNodes : nodeClass[id] = {}

\* C5: a click on a node when nothing is selected selects it, a click on
\* the selected node returns to no selection, and whenever nothing is
\* selected and the selection pass has run, every node tag, edge opacity
\* and edge marker has its neutral value: the value it has before the first
\* click and after the pass that follows the second.
C5_ToggleRestoresNeutral ==
    [][/\ \A id \in DOMAIN layoutNodes :
             handleNodeClick(id)
             => /\ selectedNodeId = Null => selectedNodeId' = id
                /\ selectedNodeId = id => selectedNodeId' = Null
       /\ (mounted' /\ selectedNodeId' = Null /\ ~ selectionTimer') => Neutral']_vars

\* The second click on the selected node has been made and the selection
\* pass is still to run: the tags of the selection are still shown.
C5_Witness ==
    /\ mounted
    /\ selectedNodeId = Null
    /\ selectionTimer
    /\ \E id \in DOMAIN layoutNodes : "selected" \in nodeClass[id]

InScaleExtent(k) == FLeq(Frac(1, 10), k) /\ FLeq(k, FInt(10))

\* C7: once the component has rendered, the scale of the viewport transform
\* (the zoom transform of the svg, the transform of the group and the
\* transform in the component's state) lies in [0.1, 10].
C7_ScaleInExtent ==
    mounted => /\ InScaleExtent(zoomTransform.k)
               /\ InScaleExtent(groupTransform.k)
               /\ InScaleExtent(transform.k)

\* C8: an edge whose source or target is not a node of the rendering has
\* the empty path.
C8_MissingEdgeNoPath ==
    \A i \in DOMAIN linkPath : ~ Present(i) => linkPath[i] = <<>>

\* The viewport transform once every running animation has completed.
RestTransform == IF zoomTransition = "none" THEN zoomTransform ELSE zoomIdentity

\* C9: the reset-layout action leaves the selected node id, and the
\* viewport transform as it is once the animations have completed, equal to
\* their values before the action.
C9_ResetLayoutPreserves ==
    [][resetLayout => /\ selectedNodeId' = selectedNodeId
                      /\ RestTransform' = RestTransform]_vars

\* C10: after a run of the layout during a drag, no tick and no end of that
\* drag changes a node position, a connection side or an edge path of the
\* rendering.
C10_SupersededDragInert ==
    [][((DragTick \/ dragended) /\ drag.id # Null /\ ~ drag.live)
          => UNCHANGED <<layoutNodes, edgeConnections, linkPath>>]_vars

\* A drag is in progress on a node that the layout has since placed anew.
C10_Witness ==
    /\ mounted
    /\ drag.id \in DOMAIN layoutNodes
    /\ ~ drag.live
    /\ layoutNodes[drag.id] \notin DragPos


\* The path routed between the live positions of the endpoints of edge i
\* after the step, from the connection sides the edge had before it.
LivePath(i) ==
    LET edge == props.data.edges[i]
        conn == edgeConnections[i]
    IN  bezierCurveToPath(
            generateOptimizedCurve(
                anchor(layoutNodes'[edge.source], conn.sourceConnectionSide),
                anchor(layoutNodes'[edge.target], conn.targetConnectionSide),
                conn.sourceConnectionSide, conn.targetConnectionSide,
                layoutNodes', NODE_WIDTH, NODE_HEIGHT, edge.source, edge.target))

\* C11: after a tick of the drag of node n at position event, the position
\* of n is event, and every edge that touches n and has both its endpoints
\* rendered has the path routed between the positions its endpoints have
\* after the tick, with the connection sides of the layout.
C11_TickWritesThenRoutes ==
    [][\A event \in DragPos :
          (dragged(event) /\ drag.live)
          => /\ layoutNodes'[drag.id] = event
             /\ \A i \in DOMAIN props.data.edges :
                   (Present(i) /\ (\/ props.data.edges[i].source = drag.id
                                   \/ props.data.edges[i].target = drag.id))
                   => linkPath'[i] = LivePath(i)]_vars

\* The drag of a has moved it, and the path of a -> b starts at the anchor
\* of the place a now has.
C11_Witness ==
    /\ drag.live
    /\ drag.id = "a"
    /\ layoutNodes["a"] \in DragPos
    /\ linkPath[1] # <<>>
    /\ linkPath[1][1] = 2 * anchor(layoutNodes["a"], edgeConnections[1].sourceConnectionSide).x
    /\ linkPath[1][2] = 2 * anchor(layoutNodes["a"], edgeConnections[1].sourceConnectionSide).y


(***************************************************************************)
(* More claims about the router.                                           *)
(***************************************************************************)

C13_ClickToggles ==
    [][/\ \A id \in DOMAIN layoutNodes :
             handleNodeClick(id)
             => IF selectedNodeId = id
                THEN selectedNodeId' = Null
                ELSE selectedNodeId' = id
       /\ selectedNodeId' \in {Null} \cup IDs(GraphPair)]_vars

\* b has been clicked while a was selected: b is the selection, and the
\* pass that moves the tag of a is still to run.
C13_Witness ==
    /\ selectedNodeId = "b"
    /\ selectionTimer
    /\ "a" \in DOMAIN nodeClass
    /\ "selected" \in nodeClass["a"]


(***************************************************************************)
(* Specification of the selection pass on its own: the component has       *)
(* rendered a graph of three nodes, its zoom is at rest, and the timeout    *)
(* of the selection effect is pending for any selection.                   *)
(***************************************************************************)
SelectEnds == {"a", "b", "c", "x"}

\* The graphs of three nodes with the edges ends[1], ends[2], ...; the
\* access of the edges alternates.
SelectGraph(ends) ==
    [nodes |-> <<"a", "b", "c">>,
     edges |-> [i \in DOMAIN ends |->
                   Edge(ends[i][1], ends[i][2], IF i % 2 = 1 THEN "ALLOW" ELSE "DENY")]]

SelectGraphs ==
    {SelectGraph(ends) :
        ends \in UNION {[1 .. n -> SelectEnds \X SelectEnds] : n \in 0 .. MaxEdges}}

\* The placement of the nodes of data in the order of data.nodes.
RowLayout(data) == [id \in IDs(data) |-> Pt(320 * (IndexOf(data, id) - 1), 0)]

SelectInit ==
    /\ mounted = TRUE
    /\ props \in {[data |-> g, width |-> 800, height |-> 600] : g \in SelectGraphs}
    /\ layoutAlgorithm = "dagre"
    /\ selectedNodeId \in {Null} \cup IDs(props.data)
    /\ isLayoutResetRef = FALSE
    /\ layoutNodes = RowLayout(props.data)
    /\ edgeConnections = edgeConnectionsOf(props.data, layoutNodes)
    /\ linkPath = [i \in DOMAIN props.data.edges |->
                      linkD(props.data.edges[i], edgeConnections[i], layoutNodes)]
    /\ linkOpacity = [i \in DOMAIN props.data.edges |-> 1]
    /\ linkMarker = [i \in DOMAIN props.data.edges |-> normalMarker(props.data.edges[i])]
    /\ nodeClass = [id \in DOMAIN layoutNodes |-> {}]
    /\ zoomTransform = zoomIdentity
    /\ groupTransform = zoomIdentity
    /\ transform = zoomIdentity
    /\ zoomTransition = "none"
    /\ selectionTimer = TRUE
    /\ drag = NoDrag
    /\ call = [fn |-> "none"]

SelectNext == selectionPass
SpecSelect == SelectInit /\ [][SelectNext]_vars

\* Some edge joins node id and node s, in either direction.
Joined(id, s) ==
    \E i \in DOMAIN props.data.edges :
        \/ props.data.edges[i].source = s /\ props.data.edges[i].target = id
        \/ props.data.edges[i].target = s /\ props.data.edges[i].source = id

\* C14: when a node s is selected and the selection pass has run, a node is
\* tagged connected iff an edge joins it to s in either direction, selected
\* iff it is s, and unselected iff it is neither; an edge has opacity 1 and
\* its normal marker iff its source or target is s, and opacity 0 and its
\* faded marker otherwise.
C14_PassTagsBySelection ==
    (mounted /\ ~ selectionTimer /\ selectedNodeId # Null)
    => /\ \A id \in DOMAIN layoutNodes :
             /\ "connected" \in nodeClass[id] <=> Joined(id, selectedNodeId)
             /\ "selected" \in nodeClass[id] <=> id = selectedNodeId
             /\ "unselected" \in nodeClass[id]
                   <=> (id # selectedNodeId /\ ~ Joined(id, selectedNodeId))
       /\ \A i \in DOMAIN props.data.edges :
             IF \/ props.data.edges[i].source = selectedNodeId
                \/ props.data.edges[i].target = selectedNodeId
             THEN /\ linkOpacity[i] = 1
                  /\ linkMarker[i] = normalMarker(props.data.edges[i])
             ELSE /\ linkOpacity[i] = 0
                  /\ linkMarker[i] = fadedMarker(props.data.edges[i])

\* The pass has run for the selection a: b is joined to a by an edge that
\* enters a, c is not joined, and an edge that does not touch a is hidden.
C14_Witness ==
    /\ mounted
    /\ ~ selectionTimer
    /\ selectedNodeId = "a"
    /\ props.data.nodes = <<"a", "b", "c">>
    /\ nodeClass["a"] = {"selected"}
    /\ nodeClass["b"] = {"connected"}
    /\ nodeClass["c"] = {"unselected"}
    /\ \E i \in DOMAIN props.data.edges :
          props.data.edges[i].source = "b" /\ props.data.edges[i].target = "a"
    /\ \E i \in DOMAIN props.data.edges : linkOpacity[i] = 0


\* C15: after a run of the layout for the first render or for a change of
\* the data, the direction or the algorithm, on a graph with nodes, the
\* viewport transform, once the animations have completed, is the
\* fit-to-viewport transform of the new layout.
C15_RestsAtFit ==
    [][((\/ Mount
         \/ \E p \in PropsSets : DataChange(p)
         \/ SetLayoutDirection
         \/ \E algorithm \in Algorithms : SetLayoutAlgorithm(algorithm))
        /\ DOMAIN layoutNodes' # {})
       => RestTransform' = FitTransform(layoutNodes', layoutAlgorithm',
                                        props'.width, props'.height)]_vars


\* C16: the end of a drag, a zoom gesture, a click, the selection pass,
\* reset-zoom with its animation and the start of a drag leave every node
\* position as it is, and a drag tick changes the position of no node but
\* the dragged one: a released node keeps the position of its last tick
\* until a run of the layout.
C16_ReleasedPositionKept ==
    [][/\ (\/ dragended
           \/ \E t \in GestureTransforms : ZoomGesture(t)
           \/ \E id \in DOMAIN layoutNodes : handleNodeClick(id)
           \/ selectionPass
           \/ resetZoom
           \/ TransitionEnd
           \/ \E id \in DOMAIN layoutNodes : dragstarted(id))
          => layoutNodes' = layoutNodes
       /\ DragTick
          => \A id \in DOMAIN layoutNodes :
                id # drag.id => layoutNodes'[id] = layoutNodes[id]]_vars

\* a has been dragged and released, and has been selected since: it is
\* where the last tick put it.
C16_Witness ==
    /\ mounted
    /\ drag = NoDrag
    /\ "a" \in DOMAIN layoutNodes
    /\ layoutNodes["a"] \in DragPos
    /\ selectedNodeId = "a"
    /\ ~ selectionTimer


(***************************************************************************)
(* Claims about the candidates and the fallback of the router.             *)
(***************************************************************************)

\* The candidate of the k-th multiplier for the call.
Candidate(k) == trialCurve(RouteStart, RouteEnd, call.sourceSide, call.targetSide, k)

\* C17: for anchors at different x and left/right sides, the candidates of
\* the five curvature multipliers have pairwise different control points.
C17_CandidatesDiffer ==
    (call.fn = "route" /\ call.done /\ RouteStart.x # RouteEnd.x)
    => \A j, k \in 1 .. 5 :
          j < k => /\ Candidate(j).control1 # Candidate(k).control1
                   /\ Candidate(j).control2 # Candidate(k).control2

\* Some interior sample of the candidate of the k-th multiplier lies in the
\* rectangle of the node that is neither source nor target.
CandidateCollides(k) ==
    \E i \in 1 .. 18 : SampleInRect(Candidate(k), i, call.nodes["C"])

\* C18: generateOptimizedCurve returns the candidate of the first
\* multiplier, in list order, whose candidate has no colliding sample; it
\* returns the curve of generateAlternativeRoute exactly when every
\* candidate collides; what it returns is always a curve of four points.
C18_FirstFreeOrFallback ==
    (call.fn = "route" /\ call.done)
    => LET free == {k \in 1 .. 5 : ~ CandidateCollides(k)}
       IN  /\ free # {}
              => \E k \in free : /\ \A j \in free : k <= j
                                 /\ call.trial = k
                                 /\ call.curve = Candidate(k)
           /\ free = {}
              => /\ call.trial = 0
                 /\ call.curve = generateAlternativeRoute(
                                     RouteStart, RouteEnd, call.sourceSide,
                                     call.targetSide, call.nodes, NODE_WIDTH,
                                     NODE_HEIGHT, "A", "B")
           /\ DOMAIN call.curve = {"start", "control1", "control2", "end"}
           /\ call.curve.start = RouteStart
           /\ call.curve.end = RouteEnd

\* Every candidate collides with the third node, which lies between the
\* anchors, and the fallback has been returned.
C18_Witness ==
    /\ call.fn = "route"
    /\ call.done
    /\ call.trial = 0
    /\ \A k \in 1 .. 5 : CandidateCollides(k)
    /\ call.curve # Candidate(1)

\* C19: the fallback curve has both control points at the height midY =
\* (start.y + end.y) / 2 displaced by 1.5 * nodeHeight, upward when end.y >
\* start.y and downward otherwise, and at the x of the anchor plus nodeWidth
\* for a right side and minus nodeWidth for a left side.  (Tenths of a
\* pixel; the heights are doubled.)
C19_FallbackDetours ==
    (call.fn = "route" /\ call.done /\ call.trial = 0)
    => LET displaced == RouteStart.y + RouteEnd.y
                          + (IF RouteEnd.y > RouteStart.y THEN -1 ELSE 1)
                              * 3 * NODE_HEIGHT * 10
       IN  /\ 2 * call.curve.control1.y = displaced
           /\ 2 * call.curve.control2.y = displaced
           /\ call.curve.control1.x
                 = RouteStart.x + (IF call.sourceSide = "right" THEN 1 ELSE -1)
                                    * NODE_WIDTH * 10
           /\ call.curve.control2.x
                 = RouteEnd.x + (IF call.targetSide = "right" THEN 1 ELSE -1)
                                  * NODE_WIDTH * 10

\* C20: the control offset calculateControlPoints projects from each anchor,
\* towards +x for a right side and -x for a left side at the anchor's own y,
\* is strictly positive and at most the maximum of 100 pixels, also when
\* the anchors have the same x.
C20_OffsetFloor ==
    (call.fn = "route" /\ call.done)
    => LET cp == calculateControlPoints(RouteStart, RouteEnd, call.sourceSide,
                                        call.targetSide, 3)
           offset1 == (cp.control1.x - RouteStart.x)
                        * (IF call.sourceSide = "right" THEN 1 ELSE -1)
           offset2 == (cp.control2.x - RouteEnd.x)
                        * (IF call.targetSide = "right" THEN 1 ELSE -1)
       IN  /\ offset1 > 0 /\ offset1 <= 100 * 10
           /\ offset2 > 0 /\ offset2 <= 100 * 10
           /\ cp.control1.y = RouteStart.y
           /\ cp.control2.y = RouteEnd.y


(***************************************************************************)
(* Claims about the layout without nodes.                                  *)
(***************************************************************************)

\* A number of the viewport transform is finite: its denominator is positive.
Finite(q) == q[2] > 0

\* C21: a run of the layout that yields no node sets the viewport transform
\* (the zoom transform of the svg, the transform of the group and the
\* transform in the component's state) to the translation (width / 2,
\* height / 2) with scale 1, every number of it finite, and renders no node
\* and an edge path for every edge of the data.
C21_EmptyLayoutCentres ==
    [][(LayoutStep /\ DOMAIN layoutNodes' = {})
       => LET centre == [x |-> Frac(props'.width, 2), y |-> Frac(props'.height, 2),
                         k |-> FInt(1)]
          IN  /\ zoomTransform' = centre
              /\ groupTransform' = centre
              /\ transform' = centre
              /\ Finite(centre.x) /\ Finite(centre.y) /\ Finite(centre.k)
              /\ DOMAIN nodeClass' = {}
              /\ DOMAIN linkPath' = DOMAIN props'.data.edges]_vars

\* The grid-scatter layout has run for data without nodes, and the viewport
\* is centred on the origin of the group.
C21_Witness ==
    /\ mounted
    /\ layoutAlgorithm = "force"
    /\ props.data.nodes = <<>>
    /\ DOMAIN layoutNodes = {}
    /\ zoomTransform = [x |-> FInt(400), y |-> FInt(300), k |-> FInt(1)]
    /\ groupTransform = zoomTransform


(***************************************************************************)
(* Claims about the subject of a drag.                                     *)
(***************************************************************************)

\* C22: at the start of a drag the subject is the position the node has in
\* the rendering (that of the layout, or that of the last tick of an earlier
\* drag) and the start moves no node; a tick of that drag puts the node at
\* the subject displaced by the displacement of the pointer since the
\* start, so a pointer that has not moved leaves the node where it was.
C22_SubjectIsLivePosition ==
    [][/\ \A id \in DOMAIN layoutNodes :
             dragstarted(id) => /\ drag'.subject = layoutNodes[id]
                                /\ layoutNodes' = layoutNodes
       /\ \A pointer \in PointerPos :
             (dragged(dragEvent(drag.subject, drag.grab, pointer)) /\ drag.live)
             => /\ layoutNodes'[drag.id] = Pt(drag.subject.x + pointer.x - drag.grab.x,
                                              drag.subject.y + pointer.y - drag.grab.y)
                /\ pointer = drag.grab => layoutNodes'[drag.id] = drag.subject]_vars

\* b was dragged and released; a second drag has started on b from the
\* released position, and a first drag of a from its layout position has
\* not happened: a is where the layout put it.
C22_Witness ==
    /\ drag.live
    /\ drag.id = "b"
    /\ drag.subject \in DragPos
    /\ layoutNodes["b"] = drag.subject
    /\ drag.grab \in PointerPos
    /\ layoutNodes["a"] \notin DragPos


(***************************************************************************)
(* Claims about a run of the layout as a whole.                            *)
(***************************************************************************)

\* The connection sides conn of edge are those the centres of its ends in
\* nodes give (0 for an end that is not rendered).
FreshSides(edge, conn, nodes) ==
    LET sourceX == XOrZero(nodes, edge.source)
        targetX == XOrZero(nodes, edge.target)
    IN  /\ conn.sourceConnectionSide = (IF sourceX < targetX THEN "right" ELSE "left")
        /\ conn.targetConnectionSide = (IF sourceX < targetX THEN "left" ELSE "right")

\* The path of edge, when both its ends are rendered, is the one routed
\* between the anchors of its ends on the sides conn, among nodes.
FreshPath(edge, conn, nodes, path) ==
    (edge.source \in DOMAIN nodes /\ edge.target \in DOMAIN nodes)
    => path = bezierCurveToPath(
           generateOptimizedCurve(
               anchor(nodes[edge.source], conn.sourceConnectionSide),
               anchor(nodes[edge.target], conn.targetConnectionSide),
               conn.sourceConnectionSide, conn.targetConnectionSide,
               nodes, NODE_WIDTH, NODE_HEIGHT, edge.source, edge.target))

\* Positions, sides and paths are those of one layout of the data of p.
FreshRendering(p, algorithm, nodes, conns, paths) ==
    /\ nodes \in LayoutChoices(p.data, algorithm, p.width, p.height)
    /\ DOMAIN conns = DOMAIN p.data.edges
    /\ DOMAIN paths = DOMAIN p.data.edges
    /\ \A i \in DOMAIN p.data.edges :
          /\ FreshSides(p.data.edges[i], conns[i], nodes)
          /\ FreshPath(p.data.edges[i], conns[i], nodes, paths[i])

\* C23: after every run of the layout (first render, change of data,
\* direction or algorithm, reset-layout) the node positions are those of a
\* layout of the data, with no position of a drag among them, the
\* connection sides of every edge are those the new positions give, and the
\* path of every edge with both ends rendered is routed from the new
\* positions and the new sides.
C23_RecomputeReplacesAll ==
    [][LayoutStep
       => /\ FreshRendering(props', layoutAlgorithm', layoutNodes', edgeConnections',
                            linkPath')
          /\ \A id \in DOMAIN layoutNodes' : layoutNodes'[id] \notin DragPos]_vars

\* b was dragged to the left of a and released, a second drag of b started
\* there, and a run of the layout during it has placed b anew, to the left
\* of a: the edge a -> b leaves a on the left.
C23_Witness ==
    /\ drag.id = "b"
    /\ ~ drag.live
    /\ drag.subject \in DragPos
    /\ layoutNodes["b"] \notin DragPos
    /\ layoutNodes["b"].x < layoutNodes["a"].x
    /\ edgeConnections[1].sourceConnectionSide = "left"
    /\ FreshRendering(props, layoutAlgorithm, layoutNodes, edgeConnections, linkPath)


(***************************************************************************)
(* More claims about the selection pass.                                   *)
(***************************************************************************)

\* C24: when a node is selected and the selection pass has run, every
\* rendered node carries exactly one of the tags selected, connected and
\* unselected, whatever the edges are, an edge from the selected node to
\* itself included.
C24_ExactlyOneTag ==
    (mounted /\ ~ selectionTimer /\ selectedNodeId # Null)
    => \A id \in DOMAIN layoutNodes :
          Cardinality(nodeClass[id] \cap {"selected", "connected", "unselected"}) = 1


(***************************************************************************)
(* Claims about the selection across runs of the layout.                   *)
(***************************************************************************)

\* C25: whenever a rendered node is selected and no selection pass is
\* pending, that node is tagged selected and every edge that does not touch
\* it has opacity 0 and its faded marker, also after a run of the layout
\* (direction, algorithm, reset-layout) that rebuilt the rendering and kept
\* the selection.
C25_TagsReflectSelection ==
    (mounted /\ ~ selectionTimer /\ selectedNodeId \in DOMAIN layoutNodes)
    => /\ "selected" \in nodeClass[selectedNodeId]
       /\ \A i \in DOMAIN props.data.edges :
             (/\ props.data.edges[i].source # selectedNodeId
              /\ props.data.edges[i].target # selectedNodeId)
             => /\ linkOpacity[i] = 0
                /\ linkMarker[i] = fadedMarker(props.data.edges[i])


(***************************************************************************)
(* Claims about the reset-layout flag.                                     *)
(***************************************************************************)

\* C26: after every run of the layout the reset-layout flag is clear, and a
\* run of the layout for a change of the data that yields nodes sets the
\* viewport transform to the fit of the new layout.
C26_FlagConsumed ==
    [][/\ LayoutStep => ~ isLayoutResetRef'
       /\ ((\E p \in PropsSets : DataChange(p)) /\ DOMAIN layoutNodes' # {})
          => zoomTransform' = FitTransform(layoutNodes', layoutAlgorithm',
                                           props'.width, props'.height)]_vars


(***************************************************************************)
(* Specification of bezierCurveToPath as a function: one call for a curve, *)
(* and one for another curve with the same start and end.  The points are  *)
(* in tenths of a pixel, at whole pixels.                                  *)
(***************************************************************************)
PathXs == {100 * i * i * i * i : i \in 0 .. MaxCol}
PathYs == {400 * j : j \in 0 .. MaxRow}
PathPts == {Pt(px, py) : px \in PathXs, py \in PathYs}
CtlPts == {Pt(500, -300), Pt(-200, 700)}
NoPath == <<>>

PathInit ==
    /\ Constructed(IdleProps)
    /\ call \in {[fn |-> "path", done |-> FALSE,
               curve |-> [start |-> s, control1 |-> c1, control2 |-> c2, end |-> e],
               other |-> [start |-> s, control1 |-> d1, control2 |-> d2, end |-> e],
               path |-> NoPath, path2 |-> NoPath] :
                 s \in PathPts, e \in PathPts,
                 c1 \in CtlPts, c2 \in CtlPts, d1 \in CtlPts, d2 \in CtlPts}

PathCall ==
    /\ call.fn = "path"
    /\ ~ call.done
    /\ call' = [call EXCEPT !.done = TRUE,
                            !.path = bezierCurveToPath(call.curve),
                            !.path2 = bezierCurveToPath(call.other)]
    /\ UNCHANGED viewVars

PathNext == PathCall
SpecPath == PathInit /\ [][PathNext]_vars

\* C27: two curves with the same start and end give the same path, whatever
\* their control points; and for every pair of connection sides the path of
\* each of the five candidates of the router between that start and end is
\* the path of its fallback.
C27_PathIgnoresControls ==
    (call.fn = "path" /\ call.done)
    => /\ call.path = call.path2
       /\ \A ss \in Sides, ts \in Sides, k \in 1 .. Len(curvatureOptions) :
             bezierCurveToPath(trialCurve(call.curve.start, call.curve.end, ss, ts, k))
               = bezierCurveToPath(
                     generateAlternativeRoute(call.curve.start, call.curve.end, ss, ts,
                                              <<>>, NODE_WIDTH, NODE_HEIGHT, "A", "B"))

\* Both paths have been computed for curves that differ in both control
\* points, between anchors that differ in x and in y.
C27_Witness ==
    /\ call.fn = "path"
    /\ call.done
    /\ call.curve.control1 # call.other.control1
    /\ call.curve.control2 # call.other.control2
    /\ call.curve.start.x # call.curve.end.x
    /\ call.curve.start.y # call.curve.end.y
    /\ Len(call.path) = 16

\* v lies between a and b, ends included.
Between(v, a, b) == Min(a, b) <= v /\ v <= Max(a, b)

\* C28: every vertex of the path of a curve lies in the box spanned by start
\* and end: the first corner begins between start.x and the spine, the
\* second ends between the spine and end.x, and the spine's two ends lie in
\* the y-range of start and end, also for runs shorter than the corner
\* radius.  (The path lists start, corner1Start, the first control point,
\* corner1End, corner2Start, the second control point, corner2End, end.)
C28_VerticesInBox ==
    (call.fn = "path" /\ call.done)
    => LET path == call.path
           middleX == path[5]
       IN  /\ Between(path[3], path[1], middleX)
           /\ Between(path[13], middleX, path[15])
           /\ Between(path[8], path[2], path[16])
           /\ Between(path[10], path[2], path[16])


(***************************************************************************)
(* Claims about the selection across changes of the data.                  *)
(***************************************************************************)

\* C29: in every state the selected node id is none or the id of a node of
\* the rendering, also after the data have been replaced by data without
\* the node that was selected.
C29_SelectionIsRendered ==
    selectedNodeId = Null \/ selectedNodeId \in DOMAIN layoutNodes


(***************************************************************************)
(* Specification of calculateForceLayout as a function of the data, the    *)
(* numeric viewport size and the draws of Math.random().                   *)
(***************************************************************************)
ScatterNames == <<"a", "b", "c", "d", "e", "f">>
ScatterData(n) == [nodes |-> SubSeq(ScatterNames, 1, n), edges |-> <<>>]
ScatterSizes == {<<800, 600>>, <<400, 200>>}

\* The values of Math.random() - 0.5 that are drawn, in sixths: -0.5, 0 and
\* 1/3, all in [-0.5, 0.5).
ScatterSixths == {-3, 0, 2}

ScatterInit ==
    /\ Constructed(IdleProps)
    /\ call \in UNION {{[fn |-> "scatter", done |-> FALSE, data |-> ScatterData(n),
                       width |-> sz[1], height |-> sz[2], random |-> random,
                       nodes |-> <<>>] :
                         sz \in ScatterSizes,
                         random \in [IDs(ScatterData(n))
                                       -> ScatterSixths \X ScatterSixths]} :
                     n \in 0 .. Min(MaxNodes, Len(ScatterNames))}

ScatterCall ==
    /\ call.fn = "scatter"
    /\ ~ call.done
    /\ call' = [call EXCEPT
          !.done = TRUE,
          !.nodes = calculateForceLayout(call.data, call.width, call.height,
                                         call.random)]
    /\ UNCHANGED viewVars

ScatterNext == ScatterCall
SpecScatter == ScatterInit /\ [][ScatterNext]_vars

\* The 200 x 100 footprints centred at p and q overlap.
FootprintsOverlap(p, q) ==
    /\ Abs(p.x - q.x) < NODE_WIDTH
    /\ Abs(p.y - q.y) < NODE_HEIGHT

\* C30: in the layout calculateForceLayout returns, whatever the draws of
\* Math.random() and the viewport size, no two nodes are at the same place
\* and no two footprints overlap.
C30_ScatterNoOverlap ==
    (call.fn = "scatter" /\ call.done)
    => \A m, n \in DOMAIN call.nodes :
          m # n => /\ call.nodes[m] # call.nodes[n]
                   /\ ~ FootprintsOverlap(call.nodes[m], call.nodes[n])

====
